---------------------------- MODULE Spec2Model ----------------------------
(***************************************************************************)
(* A model of the enigma_rs cipher engine: the alphabet codec (utils.rs),  *)
(* the rotor (rotor.rs), the reflector (reflector.rs), the plugboard       *)
(* (plugboard.rs) and the machine with its factories (machine.rs).         *)
(*                                                                         *)
(* A Rust char is modelled by its Unicode code point ('A' = 65, 'a' = 97), *)
(* a &str by the sequence of its chars, a [T; 26] array by a function on   *)
(* 0..25, Option<usize> by an index or None, and Result<T, String> by a    *)
(* record built with Ok / Err / Panic.                                     *)
(***************************************************************************)
EXTENDS Integers, Sequences, FiniteSets, TLC

(* ------------------------------ bounds -------------------------------- *)

\* Largest number of encrypt_char keystrokes in one behaviour of Spec.
MaxKeys == 2

\* Largest number of characters in a text given to encrypt or decrypt in
\* SpecRT and SpecED.
MaxText == 2

\* Largest number of characters in a text given to clean_text in SpecClean.
MaxClean == 3

\* Number of keystrokes made in SpecStep before the positions are marked.
LeadIn == 2

\* Largest number of keystrokes counted in SpecStep after the mark.
MaxSteps == 16900

(* ------------------------ Option and Result --------------------------- *)

None == -1

unwrap_or(opt, default) == IF opt = None THEN default ELSE opt

Ok(v) == [ok |-> TRUE, panic |-> FALSE, val |-> v, err |-> ""]

Err(msg) == [ok |-> FALSE, panic |-> FALSE, val |-> None, err |-> msg]

\* An abort of the call (index out of bounds, arithmetic overflow in a
\* build with overflow checks): neither Ok nor Err is returned.
Panic(msg) == [ok |-> FALSE, panic |-> TRUE, val |-> None, err |-> msg]

\* A [T; 3] array.
Arr3(a, b, c) == [i \in 0..2 |-> IF i = 0 THEN a ELSE IF i = 1 THEN b ELSE c]

(* ------------------------------- chars -------------------------------- *)

is_ascii_alphabetic(c) == c \in 65..90 \/ c \in 97..122

to_ascii_uppercase(c) == IF c \in 97..122 THEN c - 32 ELSE c

\* char::is_whitespace: the Unicode White_Space code points.
is_whitespace(c) ==
    \/ c \in 9..13
    \/ c \in {32, 133, 160, 5760, 8232, 8233, 8239, 8287, 12288}
    \/ c \in 8192..8202

\* char::len_utf8: the number of bytes of the char in a &str.
len_utf8(c) == IF c < 128 THEN 1 ELSE IF c < 2048 THEN 2 ELSE IF c < 65536 THEN 3 ELSE 4

\* str::len: the length of the string in bytes.
RECURSIVE str_len(_)
str_len(s) == IF s = <<>> THEN 0 ELSE len_utf8(Head(s)) + str_len(Tail(s))

(* ------------------------------ utils.rs ------------------------------ *)

letter_to_index(letter) ==
    IF is_ascii_alphabetic(letter) THEN to_ascii_uppercase(letter) - 65 ELSE None

index_to_letter(index) == IF index < 26 THEN 65 + index ELSE None

\* clean_text without the to_ascii_uppercase map.
RECURSIVE clean_text_mutant(_)
clean_text_mutant(text) ==
    IF text = <<>> THEN <<>>
    ELSE IF is_ascii_alphabetic(Head(text))
         THEN <<Head(text)>> \o clean_text_mutant(Tail(text))
         ELSE clean_text_mutant(Tail(text))

RECURSIVE clean_text(_)
clean_text(text) ==
    IF text = <<>> THEN <<>>
    ELSE IF is_ascii_alphabetic(Head(text))
         THEN <<to_ascii_uppercase(Head(text))>> \o clean_text(Tail(text))
         ELSE clean_text(Tail(text))

(* ------------------------------ rotor.rs ------------------------------ *)

ZeroArray == [i \in 0..25 |-> 0]

\* The loop of Rotor::new over wiring.chars().enumerate(); chars is 1-based
\* here, so the Rust index is i - 1.  Later writes to reverse_wiring
\* overwrite earlier ones and nothing checks that every slot is written.
RECURSIVE rotor_wiring_loop(_, _, _, _)
rotor_wiring_loop(chars, i, wiring_array, reverse_wiring) ==
    IF i > Len(chars)
    THEN Ok([wiring |-> wiring_array, reverse_wiring |-> reverse_wiring])
    ELSE LET target == letter_to_index(chars[i]) IN
         IF target = None
         THEN Err("Ungueltiges Zeichen in Verdrahtung")
         ELSE rotor_wiring_loop(chars, i + 1,
                                [wiring_array EXCEPT ![i - 1] = target],
                                [reverse_wiring EXCEPT ![target] = i - 1])

Rotor_new(wiring, notch, name, ring_setting, position) ==
    IF str_len(wiring) # 26
    THEN Err("Verdrahtung muss genau 26 Zeichen lang sein")
    ELSE IF ring_setting >= 26 \/ position >= 26
    THEN Err("Ringstellung und Position muessen zwischen 0 und 25 liegen")
    ELSE LET notch_index == letter_to_index(notch) IN
         IF notch_index = None
         THEN Err("Ungueltiger Kerbenbuchstabe")
         ELSE LET w == rotor_wiring_loop(wiring, 1, ZeroArray, ZeroArray) IN
              IF ~w.ok THEN w
              ELSE Ok([wiring |-> w.val.wiring,
                       reverse_wiring |-> w.val.reverse_wiring,
                       ring_setting |-> ring_setting,
                       position |-> position,
                       notch |-> notch_index,
                       name |-> name])

forward(rotor, input) ==
    LET input_index == unwrap_or(letter_to_index(input), 0)
        position == rotor.position
        ring_setting == rotor.ring_setting
        adjusted_input == (input_index + position - ring_setting + 26) % 26
        output_index == (rotor.wiring[adjusted_input] + ring_setting - position + 26) % 26
    IN unwrap_or(index_to_letter(output_index), 65)

\* backward with the forward table looked up instead of the inverse table.
backward_mutant(rotor, input) ==
    LET input_index == unwrap_or(letter_to_index(input), 0)
        position == rotor.position
        ring_setting == rotor.ring_setting
        adjusted_input == (input_index + position - ring_setting + 26) % 26
        output_index == (rotor.wiring[adjusted_input] + ring_setting - position + 26) % 26
    IN unwrap_or(index_to_letter(output_index), 65)

backward(rotor, input) ==
    LET input_index == unwrap_or(letter_to_index(input), 0)
        position == rotor.position
        ring_setting == rotor.ring_setting
        adjusted_input == (input_index + position - ring_setting + 26) % 26
        output_index == (rotor.reverse_wiring[adjusted_input] + ring_setting - position + 26) % 26
    IN unwrap_or(index_to_letter(output_index), 65)

\* step that turns the ring along with the rotor.
step_with_ring(rotor) ==
    LET was_at_notch == rotor.position = rotor.notch IN
    [rotor |-> [rotor EXCEPT !.position = (rotor.position + 1) % 26,
                             !.ring_setting = (rotor.ring_setting + 1) % 26],
     ret |-> was_at_notch]

\* step wrapping the position one slot early.
step_mutant(rotor) ==
    LET was_at_notch == rotor.position = rotor.notch IN
    [rotor |-> [rotor EXCEPT !.position = (rotor.position + 1) % 25],
     ret |-> was_at_notch]

\* Rotor::step: the rotor after the step and the returned flag.
step(rotor) ==
    LET was_at_notch == rotor.position = rotor.notch IN
    [rotor |-> [rotor EXCEPT !.position = (rotor.position + 1) % 26],
     ret |-> was_at_notch]

\* set_position that reduces the argument modulo 26 instead of testing it.
set_position_mutant(rotor, position) == [rotor EXCEPT !.position = position % 26]

set_position(rotor, position) ==
    IF position < 26 THEN [rotor EXCEPT !.position = position] ELSE rotor

set_ring_setting(rotor, ring_setting) ==
    IF ring_setting < 26 THEN [rotor EXCEPT !.ring_setting = ring_setting] ELSE rotor

get_position_char(rotor) == unwrap_or(index_to_letter(rotor.position), 65)

get_ring_setting_char(rotor) == unwrap_or(index_to_letter(rotor.ring_setting), 65)

\* "EKMFLGDQVZNTOWYHXUSPAIBRCJ", notch 'Q'
rotor_i(ring_setting, position) ==
    Rotor_new(<<69, 75, 77, 70, 76, 71, 68, 81, 86, 90, 78, 84, 79,
                87, 89, 72, 88, 85, 83, 80, 65, 73, 66, 82, 67, 74>>,
              81, "I", ring_setting, position)

\* "AJDKSIRUXBLHWTMCQGZNPYFVOE", notch 'E'
rotor_ii(ring_setting, position) ==
    Rotor_new(<<65, 74, 68, 75, 83, 73, 82, 85, 88, 66, 76, 72, 87,
                84, 77, 67, 81, 71, 90, 78, 80, 89, 70, 86, 79, 69>>,
              69, "II", ring_setting, position)

\* "BDFHJLCPRTXVZNYEIWGAKMUSQO", notch 'V'
rotor_iii(ring_setting, position) ==
    Rotor_new(<<66, 68, 70, 72, 74, 76, 67, 80, 82, 84, 88, 86, 90,
                78, 89, 69, 73, 87, 71, 65, 75, 77, 85, 83, 81, 79>>,
              86, "III", ring_setting, position)

\* "ESOVPZJAYQUIRHXLNFTGKDCMWB", notch 'J'
rotor_iv(ring_setting, position) ==
    Rotor_new(<<69, 83, 79, 86, 80, 90, 74, 65, 89, 81, 85, 73, 82,
                72, 88, 76, 78, 70, 84, 71, 75, 68, 67, 77, 87, 66>>,
              74, "IV", ring_setting, position)

\* "VZBRGITYUPSDNHLXAWMJQOFECK", notch 'Z'
rotor_v(ring_setting, position) ==
    Rotor_new(<<86, 90, 66, 82, 71, 73, 84, 89, 85, 80, 83, 68, 78,
                72, 76, 88, 65, 87, 77, 74, 81, 79, 70, 69, 67, 75>>,
              90, "V", ring_setting, position)

(* ---------------------------- reflector.rs ---------------------------- *)

\* The loop of Reflector::new over wiring.chars().enumerate() (1-based here).
RECURSIVE reflector_wiring_loop(_, _, _)
reflector_wiring_loop(chars, i, wiring_array) ==
    IF i > Len(chars)
    THEN Ok(wiring_array)
    ELSE LET target == letter_to_index(chars[i]) IN
         IF target = None
         THEN Err("Ungueltiges Zeichen in Verdrahtung")
         ELSE reflector_wiring_loop(chars, i + 1, [wiring_array EXCEPT ![i - 1] = target])

\* is_valid_permutation without the two tests on the targets table.
is_valid_permutation_mutant(wiring) == \A i \in 0..25 : wiring[i] < 26

\* The first loop returns false on an out-of-range or repeated target, the
\* second on a target that never appears.
is_valid_permutation(wiring) ==
    /\ \A i \in 0..25 : wiring[i] < 26
    /\ \A i, j \in 0..25 : i # j => wiring[i] # wiring[j]
    /\ \A t \in 0..25 : \E i \in 0..25 : wiring[i] = t

Reflector_new(wiring, name) ==
    IF str_len(wiring) # 26
    THEN Err("Verdrahtung muss genau 26 Zeichen lang sein")
    ELSE LET w == reflector_wiring_loop(wiring, 1, ZeroArray) IN
         IF ~w.ok THEN w
         ELSE IF ~is_valid_permutation(w.val)
         THEN Err("Verdrahtung muss eine gueltige Permutation sein")
         ELSE Ok([wiring |-> w.val, name |-> name])

\* reflect that returns the letter of the input index, without the lookup
\* in the wiring.
reflect_straight(reflector, input) ==
    LET input_index == unwrap_or(letter_to_index(input), 0)
    IN unwrap_or(index_to_letter(input_index), 65)

reflect(reflector, input) ==
    LET input_index == unwrap_or(letter_to_index(input), 0)
        output_index == reflector.wiring[input_index]
    IN unwrap_or(index_to_letter(output_index), 65)

\* "EJMZALYXVBWFCRQUONTSPIKHGD"
reflector_a ==
    Reflector_new(<<69, 74, 77, 90, 65, 76, 89, 88, 86, 66, 87, 70, 67,
                    82, 81, 85, 79, 78, 84, 83, 80, 73, 75, 72, 71, 68>>, "A")

\* reflector_b with the first two chars of its wiring exchanged,
\* "RYUHQSLDPXNGOKMIEBFZCWVJAT".
reflector_b_mutant ==
    Reflector_new(<<82, 89, 85, 72, 81, 83, 76, 68, 80, 88, 78, 71, 79,
                    75, 77, 73, 69, 66, 70, 90, 67, 87, 86, 74, 65, 84>>, "B")

\* "YRUHQSLDPXNGOKMIEBFZCWVJAT"
reflector_b ==
    Reflector_new(<<89, 82, 85, 72, 81, 83, 76, 68, 80, 88, 78, 71, 79,
                    75, 77, 73, 69, 66, 70, 90, 67, 87, 86, 74, 65, 84>>, "B")

\* "FVPJIAOYEDRZXWGCTKUQSBNMHL"
reflector_c ==
    Reflector_new(<<70, 86, 80, 74, 73, 65, 79, 89, 69, 68, 82, 90, 88,
                    87, 71, 67, 84, 75, 85, 81, 83, 66, 78, 77, 72, 76>>, "C")

(* ---------------------------- plugboard.rs ---------------------------- *)

Plugboard_new == [connections |-> [i \in 0..25 |-> None], connection_count |-> 0]

\* add_connection storing only the first direction of the pair.
add_connection_mutant(plugboard, first, second) ==
    IF first = second
    THEN Err("Ein Buchstabe kann nicht mit sich selbst verbunden werden")
    ELSE LET first_index == letter_to_index(first)
             second_index == letter_to_index(second)
         IN IF first_index = None \/ second_index = None
            THEN Err("Ungueltiger Buchstabe")
            ELSE IF plugboard.connections[first_index] # None
                    \/ plugboard.connections[second_index] # None
            THEN Err("Buchstabe ist bereits verbunden")
            ELSE Ok([connections |-> [plugboard.connections EXCEPT
                                         ![first_index] = second_index],
                     connection_count |-> plugboard.connection_count + 1])

\* Plugboard::add_connection: Ok carries the plugboard after the call; on
\* Err the plugboard is the one before the call.
add_connection(plugboard, first, second) ==
    IF first = second
    THEN Err("Ein Buchstabe kann nicht mit sich selbst verbunden werden")
    ELSE LET first_index == letter_to_index(first)
             second_index == letter_to_index(second)
         IN IF first_index = None \/ second_index = None
            THEN Err("Ungueltiger Buchstabe")
            ELSE IF plugboard.connections[first_index] # None
                    \/ plugboard.connections[second_index] # None
            THEN Err("Buchstabe ist bereits verbunden")
            ELSE Ok([connections |-> [plugboard.connections EXCEPT
                                         ![first_index] = second_index,
                                         ![second_index] = first_index],
                     connection_count |-> plugboard.connection_count + 1])

\* usize subtraction a - b.  With overflow checks (the debug profile) an
\* underflow aborts; without them (the release profile) it wraps modulo 2^64.
\* The model checker's integers are 32 bits wide, so the modulus is written
\* 2^30: the operands are below 2^21, and a wrapped value is only compared
\* with 26 and with other wrapped values.
usize_sub(a, b, overflow_checks) ==
    IF a >= b THEN Ok(a - b)
    ELSE IF overflow_checks THEN Panic("attempt to subtract with overflow")
    ELSE Ok(a - b + 1073741824)

\* remove_connection without the write of None at the partner's index.
remove_connection_mutant(plugboard, first, overflow_checks) ==
    LET first_index == letter_to_index(first) IN
    IF first_index = None
    THEN Err("Ungueltiger Buchstabe")
    ELSE LET second_index == plugboard.connections[first_index] IN
         IF second_index # None
         THEN LET count == usize_sub(plugboard.connection_count, 1, overflow_checks) IN
              IF ~count.ok THEN count
              ELSE Ok([connections |-> [plugboard.connections EXCEPT
                                           ![first_index] = None],
                       connection_count |-> count.val])
         ELSE Err("Keine Verbindung fuer Buchstabe gefunden")

\* Plugboard::remove_connection: Ok carries the plugboard after the call; on
\* Err the plugboard is the one before the call.
remove_connection(plugboard, first, overflow_checks) ==
    LET first_index == letter_to_index(first) IN
    IF first_index = None
    THEN Err("Ungueltiger Buchstabe")
    ELSE LET second_index == plugboard.connections[first_index] IN
         IF second_index # None
         THEN LET count == usize_sub(plugboard.connection_count, 1, overflow_checks) IN
              IF ~count.ok THEN count
              ELSE Ok([connections |-> [plugboard.connections EXCEPT
                                           ![first_index] = None,
                                           ![second_index] = None],
                       connection_count |-> count.val])
         ELSE Err("Keine Verbindung fuer Buchstabe gefunden")

clear(plugboard) == Plugboard_new

\* process that returns the input char when it is no letter, paired 'A'
\* or not.
process_keep_non_letter(plugboard, input) ==
    LET input_index == letter_to_index(input) IN
    IF input_index = None THEN input
    ELSE IF plugboard.connections[input_index] # None
    THEN unwrap_or(index_to_letter(plugboard.connections[input_index]), input)
    ELSE input

process(plugboard, input) ==
    LET input_index == unwrap_or(letter_to_index(input), 0)
        output_index == plugboard.connections[input_index]
    IN IF output_index # None
       THEN unwrap_or(index_to_letter(output_index), input)
       ELSE input

is_connected(plugboard, letter) ==
    LET index == letter_to_index(letter) IN
    IF index # None THEN plugboard.connections[index] # None ELSE FALSE

\* [String]::join(sep): the strings of parts with sep between them.
RECURSIVE join(_, _)
join(parts, sep) ==
    IF parts = <<>> THEN <<>>
    ELSE IF Len(parts) = 1 THEN Head(parts)
    ELSE Head(parts) \o sep \o join(Tail(parts), sep)

\* The loop of get_connections_string without the tests of the used array.
RECURSIVE connections_string_loop_mutant(_, _, _, _)
connections_string_loop_mutant(plugboard, i, used, connections) ==
    IF i > 25 THEN connections
    ELSE LET target == plugboard.connections[i] IN
         IF target # None
         THEN LET first == unwrap_or(index_to_letter(i), 65)
                  second == unwrap_or(index_to_letter(target), 65)
              IN connections_string_loop_mutant(plugboard, i + 1, used \cup {i, target},
                                                Append(connections, <<first, second>>))
         ELSE connections_string_loop_mutant(plugboard, i + 1, used, connections)

\* The loop of get_connections_string over the indices i of connections;
\* used is the set of the indices marked in the used array, connections
\* the Vec of the pair strings pushed so far.
RECURSIVE connections_string_loop(_, _, _, _)
connections_string_loop(plugboard, i, used, connections) ==
    IF i > 25 THEN connections
    ELSE LET target == plugboard.connections[i] IN
         IF target # None /\ i \notin used /\ target \notin used
         THEN LET first == unwrap_or(index_to_letter(i), 65)
                  second == unwrap_or(index_to_letter(target), 65)
              IN connections_string_loop(plugboard, i + 1, used \cup {i, target},
                                         Append(connections, <<first, second>>))
         ELSE connections_string_loop(plugboard, i + 1, used, connections)

get_connections_string(plugboard) ==
    join(connections_string_loop(plugboard, 0, {}, <<>>), <<32>>)

get_connection_count(plugboard) == plugboard.connection_count

\* str::trim().is_empty(): the string has no non-whitespace char.
trim_is_empty(s) == \A i \in 1..Len(s) : is_whitespace(s[i])

\* str::split_whitespace: the maximal runs of non-whitespace chars, in order.
\* cur is the run being read.
RECURSIVE split_whitespace_from(_, _)
split_whitespace_from(s, cur) ==
    IF s = <<>>
    THEN IF cur = <<>> THEN <<>> ELSE <<cur>>
    ELSE IF is_whitespace(Head(s))
         THEN (IF cur = <<>> THEN <<>> ELSE <<cur>>) \o split_whitespace_from(Tail(s), <<>>)
         ELSE split_whitespace_from(Tail(s), Append(cur, Head(s)))

split_whitespace(s) == split_whitespace_from(s, <<>>)

\* The loop of Plugboard::from_string over the tokens.  A token of two bytes
\* that is one char makes chars[1] an index out of bounds.
RECURSIVE from_string_loop(_, _)
from_string_loop(tokens, plugboard) ==
    IF tokens = <<>>
    THEN Ok(plugboard)
    ELSE LET connection == Head(tokens) IN
         IF str_len(connection) # 2
         THEN Err("Verbindung muss genau 2 Zeichen lang sein")
         ELSE IF Len(connection) < 2
         THEN Panic("index out of bounds")
         ELSE LET first == connection[1]
                  second == connection[2]
              IN IF ~is_ascii_alphabetic(first) \/ ~is_ascii_alphabetic(second)
                 THEN Err("Verbindung darf nur Buchstaben enthalten")
                 ELSE LET r == add_connection(plugboard, first, second) IN
                      IF ~r.ok THEN r
                      ELSE from_string_loop(Tail(tokens), r.val)

from_string(connections) ==
    IF trim_is_empty(connections)
    THEN Ok(Plugboard_new)
    ELSE from_string_loop(split_whitespace(connections), Plugboard_new)

(* ----------------------------- machine.rs ----------------------------- *)

EnigmaMachine_new(rotors, reflector, plugboard) ==
    [rotors |-> rotors, reflector |-> reflector, plugboard |-> plugboard]

\* step_rotors without the double step: the middle rotor moves only on a
\* carry from the right rotor.
step_rotors_no_double_step(rotors) ==
    LET right == step(rotors[2])
        right_rotor_notched == right.ret
        middle == IF right_rotor_notched
                  THEN step(rotors[1])
                  ELSE [rotor |-> rotors[1], ret |-> FALSE]
        middle_rotor_notched == middle.ret
        left == IF middle_rotor_notched THEN step(rotors[0]).rotor ELSE rotors[0]
    IN [i \in 0..2 |-> IF i = 0 THEN left ELSE IF i = 1 THEN middle.rotor ELSE right.rotor]

\* step_rotors carrying to the left rotor whenever the right rotor carried.
step_rotors_carry_through(rotors) ==
    LET right == step(rotors[2])
        right_rotor_notched == right.ret
        middle == IF right_rotor_notched
                  THEN step(rotors[1])
                  ELSE IF rotors[1].position = rotors[1].notch
                       THEN step(rotors[1])
                       ELSE [rotor |-> rotors[1], ret |-> FALSE]
        middle_rotor_notched == middle.ret \/ right_rotor_notched
        left == IF middle_rotor_notched THEN step(rotors[0]).rotor ELSE rotors[0]
    IN [i \in 0..2 |-> IF i = 0 THEN left ELSE IF i = 1 THEN middle.rotor ELSE right.rotor]

\* step_rotors that moves no rotor.
step_rotors_none(rotors) == rotors

\* EnigmaMachine::step_rotors: the rotor array after one stepping cycle.
step_rotors(rotors) ==
    LET right == step(rotors[2])
        right_rotor_notched == right.ret
        middle == IF right_rotor_notched
                  THEN step(rotors[1])
                  ELSE IF rotors[1].position = rotors[1].notch
                       THEN step(rotors[1])
                       ELSE [rotor |-> rotors[1], ret |-> FALSE]
        middle_rotor_notched == middle.ret
        left == IF middle_rotor_notched THEN step(rotors[0]).rotor ELSE rotors[0]
    IN [i \in 0..2 |-> IF i = 0 THEN left ELSE IF i = 1 THEN middle.rotor ELSE right.rotor]

\* encrypt_char stepping the rotors after the char has passed through them.
encrypt_char_step_after(machine, input) ==
    LET after_plugboard == process(machine.plugboard, input)
        rotors == machine.rotors
        f0 == forward(rotors[0], after_plugboard)
        f1 == forward(rotors[1], f0)
        f2 == forward(rotors[2], f1)
        reflected == reflect(machine.reflector, f2)
        b2 == backward(rotors[2], reflected)
        b1 == backward(rotors[1], b2)
        b0 == backward(rotors[0], b1)
        final_output == process(machine.plugboard, b0)
    IN [machine |-> [machine EXCEPT !.rotors = step_rotors(rotors)], ret |-> final_output]

\* EnigmaMachine::encrypt_char: the machine after the call and the returned char.
encrypt_char(machine, input) ==
    LET after_plugboard == process(machine.plugboard, input)
        rotors == step_rotors(machine.rotors)
        f0 == forward(rotors[0], after_plugboard)
        f1 == forward(rotors[1], f0)
        f2 == forward(rotors[2], f1)
        reflected == reflect(machine.reflector, f2)
        b2 == backward(rotors[2], reflected)
        b1 == backward(rotors[1], b2)
        b0 == backward(rotors[0], b1)
        final_output == process(machine.plugboard, b0)
    IN [machine |-> [machine EXCEPT !.rotors = rotors], ret |-> final_output]

\* The loop of EnigmaMachine::encrypt over clean_input.chars().enumerate().
RECURSIVE encrypt_loop(_, _, _, _)
encrypt_loop(machine, clean_input, i, result) ==
    IF i >= Len(clean_input)
    THEN [machine |-> machine, ret |-> result]
    ELSE LET e == encrypt_char(machine, clean_input[i + 1])
             pushed == Append(result, e.ret)
         IN encrypt_loop(e.machine, clean_input, i + 1,
                         IF i > 0 /\ i % 5 = 4 THEN Append(pushed, 32) ELSE pushed)

\* encrypt without the call of clean_text.
encrypt_mutant(machine, text) == encrypt_loop(machine, text, 0, <<>>)

encrypt(machine, text) == encrypt_loop(machine, clean_text(text), 0, <<>>)

\* The loop of EnigmaMachine::decrypt, a copy of the one of encrypt.
RECURSIVE decrypt_loop(_, _, _, _)
decrypt_loop(machine, clean_input, i, result) ==
    IF i >= Len(clean_input)
    THEN [machine |-> machine, ret |-> result]
    ELSE LET d == encrypt_char(machine, clean_input[i + 1])
             pushed == Append(result, d.ret)
         IN decrypt_loop(d.machine, clean_input, i + 1,
                         IF i > 0 /\ i % 5 = 4 THEN Append(pushed, 32) ELSE pushed)

\* decrypt without the call of clean_text.
decrypt_mutant(machine, text) == decrypt_loop(machine, text, 0, <<>>)

decrypt(machine, text) == decrypt_loop(machine, clean_text(text), 0, <<>>)

\* positions and ring_settings are [char; 3], modelled as functions on 0..2.
set_rotor_positions(machine, positions) ==
    [machine EXCEPT !.rotors =
        [i \in 0..2 |-> LET index == letter_to_index(positions[i]) IN
                        IF index # None THEN set_position(machine.rotors[i], index)
                        ELSE machine.rotors[i]]]

set_ring_settings(machine, ring_settings) ==
    [machine EXCEPT !.rotors =
        [i \in 0..2 |-> LET index == letter_to_index(ring_settings[i]) IN
                        IF index # None THEN set_ring_setting(machine.rotors[i], index)
                        ELSE machine.rotors[i]]]

get_rotor_positions(machine) == [i \in 0..2 |-> get_position_char(machine.rotors[i])]

get_ring_settings(machine) == [i \in 0..2 |-> get_ring_setting_char(machine.rotors[i])]

\* The chars of a name field, which the model holds as a string; the
\* names are those the rotor and reflector constructors are called with.
name_chars(name) ==
    CASE name = "I" -> <<73>>
      [] name = "II" -> <<73, 73>>
      [] name = "III" -> <<73, 73, 73>>
      [] name = "IV" -> <<73, 86>>
      [] name = "V" -> <<86>>
      [] name = "A" -> <<65>>
      [] name = "B" -> <<66>>
      [] name = "C" -> <<67>>

\* format!("{} {} {}", a, b, c) for three strings.
format3(a, b, c) == a \o <<32>> \o b \o <<32>> \o c

\* "Rotoren: {} {} {}\nRingstellungen: {} {} {}\nPositionen: {} {} {}\n
\* Reflektor: {}\nSteckerbrett: {}"
get_configuration_info(machine) ==
    <<82, 111, 116, 111, 114, 101, 110, 58, 32>>
    \o format3(name_chars(machine.rotors[0].name),
               name_chars(machine.rotors[1].name),
               name_chars(machine.rotors[2].name))
    \o <<10, 82, 105, 110, 103, 115, 116, 101, 108, 108, 117, 110, 103, 101, 110, 58, 32>>
    \o format3(<<get_ring_settings(machine)[0]>>,
               <<get_ring_settings(machine)[1]>>,
               <<get_ring_settings(machine)[2]>>)
    \o <<10, 80, 111, 115, 105, 116, 105, 111, 110, 101, 110, 58, 32>>
    \o format3(<<get_rotor_positions(machine)[0]>>,
               <<get_rotor_positions(machine)[1]>>,
               <<get_rotor_positions(machine)[2]>>)
    \o <<10, 82, 101, 102, 108, 101, 107, 116, 111, 114, 58, 32>>
    \o name_chars(machine.reflector.name)
    \o <<10, 83, 116, 101, 99, 107, 101, 114, 98, 114, 101, 116, 116, 58, 32>>
    \o get_connections_string(machine.plugboard)

\* One element of the rotor array of a factory: the creator selected by
\* rotor_type, called as creator(ring_char as usize - b'A' as usize,
\* position_char as usize - b'A' as usize).  The arguments are evaluated
\* before the call, the ring setting first.
factory_rotor(rotor_type, ring_char, position_char, overflow_checks) ==
    IF rotor_type \notin {"I", "II", "III", "IV", "V"}
    THEN Err("Unbekannter Rotortyp")
    ELSE LET ring == usize_sub(ring_char, 65, overflow_checks) IN
         IF ~ring.ok THEN ring
         ELSE LET position == usize_sub(position_char, 65, overflow_checks) IN
              IF ~position.ok THEN position
              ELSE CASE rotor_type = "I" -> rotor_i(ring.val, position.val)
                     [] rotor_type = "II" -> rotor_ii(ring.val, position.val)
                     [] rotor_type = "III" -> rotor_iii(ring.val, position.val)
                     [] rotor_type = "IV" -> rotor_iv(ring.val, position.val)
                     [] rotor_type = "V" -> rotor_v(ring.val, position.val)

\* create_standard_machine with the ring and position arguments of the
\* rotor creators exchanged.
create_standard_machine_mutant(rotor_positions, ring_settings, plugboard_connections, overflow_checks) ==
    LET r0 == factory_rotor("I", rotor_positions[0], ring_settings[0], overflow_checks) IN
    IF ~r0.ok THEN r0
    ELSE LET r1 == factory_rotor("II", rotor_positions[1], ring_settings[1], overflow_checks) IN
    IF ~r1.ok THEN r1
    ELSE LET r2 == factory_rotor("III", rotor_positions[2], ring_settings[2], overflow_checks) IN
    IF ~r2.ok THEN r2
    ELSE LET reflector == reflector_b IN
    IF ~reflector.ok THEN reflector
    ELSE LET plugboard_result == from_string(plugboard_connections) IN
    IF ~plugboard_result.ok THEN plugboard_result
    ELSE Ok(EnigmaMachine_new(Arr3(r0.val, r1.val, r2.val), reflector.val, plugboard_result.val))

create_standard_machine(rotor_positions, ring_settings, plugboard_connections, overflow_checks) ==
    LET r0 == factory_rotor("I", ring_settings[0], rotor_positions[0], overflow_checks) IN
    IF ~r0.ok THEN r0
    ELSE LET r1 == factory_rotor("II", ring_settings[1], rotor_positions[1], overflow_checks) IN
    IF ~r1.ok THEN r1
    ELSE LET r2 == factory_rotor("III", ring_settings[2], rotor_positions[2], overflow_checks) IN
    IF ~r2.ok THEN r2
    ELSE LET reflector == reflector_b IN
    IF ~reflector.ok THEN reflector
    ELSE LET plugboard_result == from_string(plugboard_connections) IN
    IF ~plugboard_result.ok THEN plugboard_result
    ELSE Ok(EnigmaMachine_new(Arr3(r0.val, r1.val, r2.val), reflector.val, plugboard_result.val))

\* The loop of create_custom_machine over rotor_types; rotors is the Vec
\* built so far, k the index of the rotor type being read.
RECURSIVE custom_rotors_loop(_, _, _, _, _, _)
custom_rotors_loop(rotor_types, rotor_positions, ring_settings, k, rotors, overflow_checks) ==
    IF k > 2
    THEN Ok(rotors)
    ELSE LET ring_idx == 3 - 1 - Len(rotors)
             pos_idx == ring_idx
             created == factory_rotor(rotor_types[k], ring_settings[pos_idx],
                                      rotor_positions[pos_idx], overflow_checks)
         IN IF ~created.ok THEN created
            ELSE custom_rotors_loop(rotor_types, rotor_positions, ring_settings,
                                    k + 1, Append(rotors, created.val), overflow_checks)

create_custom_machine(rotor_types, rotor_positions, ring_settings, reflector_type, plugboard_connections, overflow_checks) ==
    LET rotors == custom_rotors_loop(rotor_types, rotor_positions, ring_settings,
                                     0, <<>>, overflow_checks) IN
    IF ~rotors.ok THEN rotors
    ELSE LET reflector == CASE reflector_type = "A" -> reflector_a
                            [] reflector_type = "B" -> reflector_b
                            [] reflector_type = "C" -> reflector_c
                            [] OTHER -> Err("Unbekannter Reflektortyp")
         IN
    IF ~reflector.ok THEN reflector
    ELSE LET plugboard_result == from_string(plugboard_connections) IN
    IF ~plugboard_result.ok THEN plugboard_result
    ELSE Ok(EnigmaMachine_new(Arr3(rotors.val[1], rotors.val[2], rotors.val[3]),
                              reflector.val, plugboard_result.val))

(* --------------------------- the state machine ------------------------- *)

VARIABLES
    machine,    \* the EnigmaMachine the program holds
    keys,       \* the number of encrypt_char calls made on it
    run,        \* the encrypt / reset / decrypt scenario of the tests
    rotor,      \* a Rotor used on its own
    plugboard,  \* a Plugboard used on its own
    reflector,  \* a Reflector used on its own
    last        \* the last call: its name, arguments, return value

vars == <<machine, keys, run, rotor, plugboard, reflector, last>>

NoCall == [op |-> "none"]

\* The position of each rotor of the stack, as indices.
Positions(m) == [i \in 0..2 |-> m.rotors[i].position]

(* Inputs of the factories.  The position letters are A and B, the ring      *)
(* letters A..D, the plugboard strings "" and "AB CD EF".                    *)
RotorTypeChoices == {Arr3("I", "II", "III"), Arr3("II", "IV", "V")}

ReflectorTypeChoices == {"A", "B", "C"}

StartPositionChoices == {Arr3(a, b, c) : a, b, c \in {65, 66}}

RingSettingChoices == {Arr3(65, 65, 65), Arr3(66, 67, 68)}

PlugboardStringChoices == {<<>>, <<65, 66, 32, 67, 68, 32, 69, 70>>}

\* The machines the factories return for these inputs.
StandardMachines ==
    {create_standard_machine(p, r, s, oc).val :
        p \in StartPositionChoices, r \in RingSettingChoices,
        s \in PlugboardStringChoices, oc \in BOOLEAN}

CustomMachines ==
    {create_custom_machine(t, p, r, f, s, oc).val :
        t \in RotorTypeChoices, p \in StartPositionChoices, r \in RingSettingChoices,
        f \in ReflectorTypeChoices, s \in PlugboardStringChoices, oc \in BOOLEAN}

(* Spec: a machine built by a factory, then keystrokes and position resets.  *)

\* The positions the setter is called with: the left rotor on A or on Q
\* (the notch of I), the middle rotor on A, E or J (the notches of II and
\* IV), the right rotor on A, V or Z (the notches of III and V).
SetPositionChoices == {Arr3(a, b, c) : a \in {65, 81}, b \in {65, 69, 74}, c \in {65, 86, 90}}

\* The chars typed: 'A', 'c' and '1'.
KeyChars == {65, 99, 49}

Init ==
    /\ machine \in StandardMachines \cup CustomMachines
    /\ keys = 0
    /\ reflector = None
    /\ run = None
    /\ rotor = None
    /\ plugboard = None
    /\ last = NoCall

EncryptChar(c) ==
    /\ keys < MaxKeys
    /\ LET e == encrypt_char(machine, c) IN
       /\ machine' = e.machine
       /\ last' = [op |-> "encrypt_char", input |-> c, ret |-> e.ret,
                   before |-> Positions(machine)]
    /\ keys' = keys + 1
    /\ UNCHANGED <<reflector, run, rotor, plugboard>>

SetRotorPositions(p) ==
    /\ machine' = set_rotor_positions(machine, p)
    /\ last' = [op |-> "set_rotor_positions", input |-> p]
    /\ UNCHANGED <<reflector, keys, run, rotor, plugboard>>

Next ==
    \/ \E c \in KeyChars : EncryptChar(c)
    \/ \E p \in SetPositionChoices : SetRotorPositions(p)

Spec == Init /\ [][Next]_vars

(* SpecRT: the scenario of the round-trip tests: build a machine with a     *)
(* factory, encrypt a text, set the rotors back to the start positions the  *)
(* factory was given, decrypt the ciphertext.                               *)

\* The chars of the texts: 'A', 'b' and '1'.
TextChars == {65, 98, 49}

RECURSIVE SeqsUpTo(_, _)
SeqsUpTo(S, n) ==
    IF n = 0 THEN {<<>>}
    ELSE LET shorter == SeqsUpTo(S, n - 1) IN
         shorter \cup {Append(t, c) : t \in shorter, c \in S}

\* The texts: every string of up to MaxText chars, and "HELLO WORLD".
Texts ==
    SeqsUpTo(TextChars, MaxText) \cup {<<72, 69, 76, 76, 79, 32, 87, 79, 82, 76, 68>>}

RTStart(factory, built, start, text) ==
    /\ built.ok
    /\ machine = built.val
    /\ run = [pc |-> "built", factory |-> factory, start |-> start, text |-> text,
              encrypted |-> <<>>, decrypted |-> <<>>]

RTInit ==
    /\ \E p \in StartPositionChoices, r \in RingSettingChoices,
          s \in PlugboardStringChoices, oc \in BOOLEAN, text \in Texts :
          \/ RTStart("create_standard_machine",
                     create_standard_machine(p, r, s, oc), p, text)
          \/ \E t \in RotorTypeChoices, f \in ReflectorTypeChoices :
                RTStart("create_custom_machine",
                        create_custom_machine(t, p, r, f, s, oc), p, text)
    /\ keys = 0
    /\ reflector = None
    /\ rotor = None
    /\ plugboard = None
    /\ last = NoCall

RTEncrypt ==
    /\ run.pc = "built"
    /\ LET e == encrypt(machine, run.text) IN
       /\ machine' = e.machine
       /\ run' = [run EXCEPT !.pc = "encrypted", !.encrypted = e.ret]
    /\ UNCHANGED <<reflector, keys, rotor, plugboard, last>>

RTReset ==
    /\ run.pc = "encrypted"
    /\ machine' = set_rotor_positions(machine, run.start)
    /\ run' = [run EXCEPT !.pc = "reset"]
    /\ UNCHANGED <<reflector, keys, rotor, plugboard, last>>

RTDecrypt ==
    /\ run.pc = "reset"
    /\ LET d == decrypt(machine, run.encrypted) IN
       /\ machine' = d.machine
       /\ run' = [run EXCEPT !.pc = "done", !.decrypted = d.ret]
    /\ UNCHANGED <<reflector, keys, rotor, plugboard, last>>

RTNext == RTEncrypt \/ RTReset \/ RTDecrypt

SpecRT == RTInit /\ [][RTNext]_vars

(* SpecRotor: a predefined rotor at some ring setting and position, and one *)
(* letter sent through it forward or backward.                               *)

RotorNames == {"I", "II", "III", "IV", "V"}

\* The letters 'A'..'Z'.
UpperLetters == 65..90

RotorInit ==
    /\ \E name \in RotorNames, ring_setting \in 0..25, position \in 0..25 :
          rotor = (CASE name = "I" -> rotor_i(ring_setting, position)
                     [] name = "II" -> rotor_ii(ring_setting, position)
                     [] name = "III" -> rotor_iii(ring_setting, position)
                     [] name = "IV" -> rotor_iv(ring_setting, position)
                     [] name = "V" -> rotor_v(ring_setting, position)).val
    /\ \E c \in UpperLetters : last = [op |-> "none", input |-> c, ret |-> None]
    /\ machine = None
    /\ keys = 0
    /\ reflector = None
    /\ run = None
    /\ plugboard = None

RotorForward ==
    /\ last.op = "none"
    /\ last' = [op |-> "forward", input |-> last.input, ret |-> forward(rotor, last.input)]
    /\ UNCHANGED <<reflector, machine, keys, run, rotor, plugboard>>

RotorBackward ==
    /\ last.op = "none"
    /\ last' = [op |-> "backward", input |-> last.input, ret |-> backward(rotor, last.input)]
    /\ UNCHANGED <<reflector, machine, keys, run, rotor, plugboard>>

RotorNext == RotorForward \/ RotorBackward

SpecRotor == RotorInit /\ [][RotorNext]_vars

(* SpecRotorNew: calls of Rotor::new with wirings that are and are not      *)
(* permutations of the alphabet.                                             *)

\* The wiring of rotor I, "EKMFLGDQVZNTOWYHXUSPAIBRCJ".
WiringI ==
    <<69, 75, 77, 70, 76, 71, 68, 81, 86, 90, 78, 84, 79,
      87, 89, 72, 88, 85, 83, 80, 65, 73, 66, 82, 67, 74>>

\* The wiring of rotor I, that wiring with its first, its 13th or its last
\* char replaced by 'A', by 'a', by '1' or by U+00E9 (two bytes), and that
\* wiring without its last char.
WiringChoices ==
    {WiringI, SubSeq(WiringI, 1, 25)}
        \cup {[WiringI EXCEPT ![k] = c] : k \in {1, 13, 26}, c \in {65, 97, 49, 233}}

RotorNewInit ==
    /\ rotor = None
    /\ last = NoCall
    /\ machine = None
    /\ keys = 0
    /\ reflector = None
    /\ run = None
    /\ plugboard = None

\* let rotor = Rotor::new(wiring, notch, "X", ring_setting, position): the
\* program holds the rotor when the call returns Ok.
RotorNew(wiring, notch, ring_setting, position) ==
    /\ LET r == Rotor_new(wiring, notch, "X", ring_setting, position) IN
       /\ last' = [op |-> "Rotor::new", input |-> wiring, ret |-> r]
       /\ rotor' = IF r.ok THEN r.val ELSE rotor
    /\ UNCHANGED <<reflector, machine, keys, run, plugboard>>

RotorNewNext ==
    \E wiring \in WiringChoices, notch \in {81, 49}, ring_setting \in {0, 25, 26},
       position \in {0, 26} :
        RotorNew(wiring, notch, ring_setting, position)

SpecRotorNew == RotorNewInit /\ [][RotorNewNext]_vars

(* SpecPlug: a plugboard used on its own through from_string,               *)
(* add_connection, remove_connection, clear and process.                     *)

\* The chars given to the plugboard: 'A', 'B', 'C', 'a', 'b' and '1'.
PlugChars == {65, 66, 67, 97, 98, 49}

\* The strings given to from_string: "", "  ", "AB", "AB CD", " ab  Cd ",
\* "Aa", "AA", "AB BC", "ABC", "A", "A1", "AB <U+00E9>" and "ZC YX".
PlugStrings ==
    {<<>>, <<32, 32>>, <<65, 66>>, <<65, 66, 32, 67, 68>>, <<90, 67, 32, 89, 88>>,
     <<32, 97, 98, 32, 32, 67, 100, 32>>, <<65, 97>>, <<65, 65>>,
     <<65, 66, 32, 66, 67>>, <<65, 66, 67>>, <<65>>, <<65, 49>>,
     <<65, 66, 32, 233>>}

PlugInit ==
    /\ plugboard = Plugboard_new
    /\ last = NoCall
    /\ machine = None
    /\ keys = 0
    /\ reflector = None
    /\ run = None
    /\ rotor = None

\* plugboard = Plugboard::from_string(s)?: the program holds the new
\* plugboard when the call returns Ok and keeps the old one otherwise.
PlugFromString(s) ==
    /\ LET r == from_string(s) IN
       /\ last' = [op |-> "from_string", input |-> s, ret |-> r]
       /\ plugboard' = IF r.ok THEN r.val ELSE plugboard
    /\ UNCHANGED <<reflector, machine, keys, run, rotor>>

PlugAddConnection(first, second) ==
    /\ LET r == add_connection(plugboard, first, second) IN
       /\ last' = [op |-> "add_connection", input |-> <<first, second>>, ret |-> r,
                   before |-> plugboard]
       /\ plugboard' = IF r.ok THEN r.val ELSE plugboard
    /\ UNCHANGED <<reflector, machine, keys, run, rotor>>

PlugRemoveConnection(first, overflow_checks) ==
    /\ LET r == remove_connection(plugboard, first, overflow_checks) IN
       /\ last' = [op |-> "remove_connection", input |-> first, ret |-> r,
                   before |-> plugboard]
       /\ plugboard' = IF r.ok THEN r.val ELSE plugboard
    /\ UNCHANGED <<reflector, machine, keys, run, rotor>>

PlugClear ==
    /\ plugboard' = clear(plugboard)
    /\ last' = [op |-> "clear", input |-> None, ret |-> None]
    /\ UNCHANGED <<reflector, machine, keys, run, rotor>>

PlugProcess(input) ==
    /\ last' = [op |-> "process", input |-> input, ret |-> process(plugboard, input)]
    /\ UNCHANGED <<reflector, machine, keys, run, rotor, plugboard>>

PlugGetConnectionsString ==
    /\ last' = [op |-> "get_connections_string", input |-> None,
                ret |-> get_connections_string(plugboard)]
    /\ UNCHANGED <<reflector, machine, keys, run, rotor, plugboard>>

PlugNext ==
    \/ \E s \in PlugStrings : PlugFromString(s)
    \/ \E first, second \in PlugChars : PlugAddConnection(first, second)
    \/ \E first \in PlugChars, overflow_checks \in BOOLEAN :
          PlugRemoveConnection(first, overflow_checks)
    \/ PlugClear
    \/ \E input \in PlugChars : PlugProcess(input)
    \/ PlugGetConnectionsString

SpecPlug == PlugInit /\ [][PlugNext]_vars

(* SpecSet: one call of a setter, on a rotor used on its own or on a       *)
(* machine, with arguments that are and are not valid.                       *)

\* The arguments of Rotor::set_position and Rotor::set_ring_setting.
SetIndexChoices == {0, 7, 25, 26, 27, 255}

\* The arrays given to the setters of the machine: 'C', 'd' and '1' in
\* every arrangement.
SetCharChoices == {Arr3(a, b, c) : a, b, c \in {67, 100, 49}}

SetInit ==
    /\ machine \in StandardMachines
    /\ rotor \in {rotor_i(1, 2).val, rotor_v(0, 25).val}
    /\ keys = 0
    /\ reflector = None
    /\ run = None
    /\ plugboard = None
    /\ last = NoCall

RotorSetPosition(position) ==
    /\ last.op = "none"
    /\ rotor' = set_position(rotor, position)
    /\ last' = [op |-> "Rotor::set_position", input |-> position, before |-> rotor]
    /\ UNCHANGED <<reflector, machine, keys, run, plugboard>>

RotorSetRingSetting(ring_setting) ==
    /\ last.op = "none"
    /\ rotor' = set_ring_setting(rotor, ring_setting)
    /\ last' = [op |-> "Rotor::set_ring_setting", input |-> ring_setting, before |-> rotor]
    /\ UNCHANGED <<reflector, machine, keys, run, plugboard>>

MachineSetRotorPositions(positions) ==
    /\ last.op = "none"
    /\ machine' = set_rotor_positions(machine, positions)
    /\ last' = [op |-> "set_rotor_positions", input |-> positions, before |-> machine]
    /\ UNCHANGED <<reflector, keys, run, rotor, plugboard>>

MachineSetRingSettings(ring_settings) ==
    /\ last.op = "none"
    /\ machine' = set_ring_settings(machine, ring_settings)
    /\ last' = [op |-> "set_ring_settings", input |-> ring_settings, before |-> machine]
    /\ UNCHANGED <<reflector, keys, run, rotor, plugboard>>

SetNext ==
    \/ \E position \in SetIndexChoices : RotorSetPosition(position)
    \/ \E ring_setting \in SetIndexChoices : RotorSetRingSetting(ring_setting)
    \/ \E positions \in SetCharChoices : MachineSetRotorPositions(positions)
    \/ \E ring_settings \in SetCharChoices : MachineSetRingSettings(ring_settings)

SpecSet == SetInit /\ [][SetNext]_vars

(* SpecTwice: the machine of test_rotor_stepping (rotors I, II, III,       *)
(* reflector B, positions "AAA", rings "AAA", no plugboard pair) and two     *)
(* calls of encrypt_char on it.                                              *)

TwiceInit ==
    /\ machine = create_standard_machine(Arr3(65, 65, 65), Arr3(65, 65, 65), <<>>, FALSE).val
    /\ run = <<>>
    /\ keys = 0
    /\ reflector = None
    /\ rotor = None
    /\ plugboard = None
    /\ last = NoCall

\* run is the list of the calls made: the char given and the char returned.
TwiceEncryptChar(c) ==
    /\ Len(run) < 2
    /\ LET e == encrypt_char(machine, c) IN
       /\ machine' = e.machine
       /\ run' = Append(run, [input |-> c, ret |-> e.ret])
    /\ UNCHANGED <<reflector, keys, rotor, plugboard, last>>

TwiceNext == \E c \in UpperLetters : TwiceEncryptChar(c)

SpecTwice == TwiceInit /\ [][TwiceNext]_vars

(* SpecCall: a machine built by a factory, at the start positions or set   *)
(* to other positions, and one call of encrypt_char, encrypt or decrypt.     *)

\* The machines: those the factories return for their inputs, and two of
\* them with the rotors set to the positions of SetPositionChoices.
CallMachines ==
    StandardMachines \cup CustomMachines
        \cup {set_rotor_positions(m, p) :
                m \in {create_standard_machine(Arr3(65, 65, 65), Arr3(66, 67, 68),
                                               <<65, 66, 32, 67, 68, 32, 69, 70>>, FALSE).val,
                       create_custom_machine(Arr3("II", "IV", "V"), Arr3(65, 65, 65),
                                             Arr3(65, 65, 65), "C", <<>>, FALSE).val},
                p \in SetPositionChoices}

\* The chars given to encrypt_char: 'A'..'Z', 'a', 'f', 'z', '1', ' ', NUL
\* and U+00E9.
CallChars == UpperLetters \cup {97, 102, 122, 49, 32, 0, 233}

\* The texts given to encrypt and decrypt: "", "A1b", "HELLO" and "a-f f".
CallTexts == {<<>>, <<65, 49, 98>>, <<72, 69, 76, 76, 79>>, <<97, 45, 102, 32, 102>>}

\* run is the machine as it was before the call.
CallInit ==
    /\ machine \in CallMachines
    /\ run = machine
    /\ keys = 0
    /\ reflector = None
    /\ rotor = None
    /\ plugboard = None
    /\ last = NoCall

CallEncryptChar(c) ==
    /\ last.op = "none"
    /\ LET e == encrypt_char(machine, c) IN
       /\ machine' = e.machine
       /\ last' = [op |-> "encrypt_char", input |-> c, ret |-> e.ret]
    /\ UNCHANGED <<reflector, keys, run, rotor, plugboard>>

CallEncrypt(text) ==
    /\ last.op = "none"
    /\ LET e == encrypt(machine, text) IN
       /\ machine' = e.machine
       /\ last' = [op |-> "encrypt", input |-> text, ret |-> e.ret]
    /\ UNCHANGED <<reflector, keys, run, rotor, plugboard>>

CallDecrypt(text) ==
    /\ last.op = "none"
    /\ LET d == decrypt(machine, text) IN
       /\ machine' = d.machine
       /\ last' = [op |-> "decrypt", input |-> text, ret |-> d.ret]
    /\ UNCHANGED <<reflector, keys, run, rotor, plugboard>>

CallNext ==
    \/ \E c \in CallChars : CallEncryptChar(c)
    \/ \E text \in CallTexts : CallEncrypt(text)
    \/ \E text \in CallTexts : CallDecrypt(text)

SpecCall == CallInit /\ [][CallNext]_vars

(* SpecStep: keystroke after keystroke on the standard machine, set to any  *)
(* start positions.  After LeadIn keystrokes the positions are marked; for   *)
(* the start positions of StepStartChoices the keystrokes after the mark     *)
(* are made and counted.                                                     *)

\* The start positions followed beyond the mark: "AAA"; "AEV", the middle
\* and the right rotor of I-II-III both on their notches; "AEA", the middle
\* rotor on its notch; "AFW", both one past their notches.
StepStartChoices ==
    {Arr3(65, 65, 65), Arr3(65, 69, 86), Arr3(65, 69, 65), Arr3(65, 70, 87)}

\* The middle rotor of the stack is on its notch.
MiddleOnNotch(m) == m.rotors[1].position = m.rotors[1].notch

\* The standard machine with rings "AAA" and no plugboard pair.
StepBaseMachine ==
    create_standard_machine(Arr3(65, 65, 65), Arr3(65, 65, 65), <<>>, FALSE).val

\* run.start is the position letters the machine was set to, run.lead the
\* number of keystrokes before the mark, run.mark the positions marked;
\* keys is the number of keystrokes after the mark, last the positions
\* before the last keystroke.
StepInit ==
    /\ \E a, b, c \in UpperLetters :
          /\ machine = set_rotor_positions(StepBaseMachine, Arr3(a, b, c))
          /\ run = [start |-> Arr3(a, b, c), lead |-> 0, mark |-> None]
    /\ keys = 0
    /\ reflector = None
    /\ rotor = None
    /\ plugboard = None
    /\ last = NoCall

StepKeystroke(c) ==
    /\ keys < MaxSteps
    /\ run.lead < LeadIn \/ run.start \in StepStartChoices
    /\ LET e == encrypt_char(machine, c) IN
       /\ machine' = e.machine
       /\ last' = [op |-> "encrypt_char", before |-> Positions(machine),
                   middle_on_notch |-> MiddleOnNotch(machine)]
       /\ IF run.lead < LeadIn
          THEN /\ run' = [run EXCEPT !.lead = run.lead + 1,
                                     !.mark = IF run.lead + 1 = LeadIn
                                              THEN Positions(e.machine) ELSE None]
               /\ UNCHANGED keys
          ELSE /\ keys' = keys + 1
               /\ UNCHANGED run
    /\ UNCHANGED <<reflector, rotor, plugboard>>

StepNext == \E c \in {65, 49} : StepKeystroke(c)

SpecStep == StepInit /\ [][StepNext]_vars

(* SpecClean: clean_text called on a text, and again on what it returned.  *)

\* The chars of the texts cleaned: 'A', 'b', '1', ' ' and U+00E9.
CleanChars == {65, 98, 49, 32, 233}

\* Every string of up to MaxClean of these chars, and "He11o, World!".
CleanTexts ==
    SeqsUpTo(CleanChars, MaxClean)
        \cup {<<72, 101, 49, 49, 111, 44, 32, 87, 111, 114, 108, 100, 33>>}

CleanInit ==
    /\ run \in CleanTexts
    /\ machine = None
    /\ keys = 0
    /\ reflector = None
    /\ rotor = None
    /\ plugboard = None
    /\ last = NoCall

CleanText ==
    /\ last.op = "none"
    /\ last' = [op |-> "clean_text", input |-> run, ret |-> clean_text(run)]
    /\ UNCHANGED <<reflector, machine, keys, run, rotor, plugboard>>

\* clean_text(clean_text(s)): input is what the first call returned.
CleanAgain ==
    /\ last.op = "clean_text"
    /\ last' = [op |-> "clean_again", input |-> last.ret, ret |-> clean_text(last.ret)]
    /\ UNCHANGED <<reflector, machine, keys, run, rotor, plugboard>>

CleanNext == CleanText \/ CleanAgain

SpecClean == CleanInit /\ [][CleanNext]_vars

(* SpecReflector: a predefined reflector, a char sent through it, and the  *)
(* char that comes out sent through it again.                                *)

\* The chars sent through the reflector: 'A'..'Z', 'a' and '1'.
ReflectChars == UpperLetters \cup {97, 49}

ReflectorInit ==
    /\ reflector \in {reflector_a.val, reflector_b.val, reflector_c.val}
    /\ machine = None
    /\ keys = 0
    /\ run = None
    /\ rotor = None
    /\ plugboard = None
    /\ last = NoCall

Reflect(x) ==
    /\ last.op = "none"
    /\ last' = [op |-> "reflect", input |-> x, ret |-> reflect(reflector, x)]
    /\ UNCHANGED <<reflector, machine, keys, run, rotor, plugboard>>

\* reflect(reflect(x)): first is x, input the char the first call returned.
ReflectAgain ==
    /\ last.op = "reflect"
    /\ last' = [op |-> "reflect_again", first |-> last.input, input |-> last.ret,
                ret |-> reflect(reflector, last.ret)]
    /\ UNCHANGED <<reflector, machine, keys, run, rotor, plugboard>>

ReflectorNext ==
    \/ \E x \in ReflectChars : Reflect(x)
    \/ ReflectAgain

SpecReflector == ReflectorInit /\ [][ReflectorNext]_vars

(* SpecReflectorNew: calls of Reflector::new with wirings that are and are  *)
(* not permutations of the alphabet.                                         *)

\* The wiring string a reflector was built from, in upper case.
WiringOf(r) == [k \in 1..26 |-> 65 + r.wiring[k - 1]]

\* The wirings of reflectors A, B and C; the wiring of rotor I, which is a
\* permutation but no involution, in upper and in lower case; the alphabet
\* itself; the wirings of WiringChoices; the wiring of reflector B with a
\* 27th char and with its first two chars made equal; the wiring of
\* reflector C with its first or last char replaced by 'A' or by '1'; 24
\* letters followed by U+00E9, which is 25 chars and 26 bytes; and the
\* empty wiring.
ReflectorWiringChoices ==
    WiringChoices
        \cup {WiringOf(reflector_a.val), WiringOf(reflector_b.val),
              WiringOf(reflector_c.val)}
        \cup {[k \in 1..26 |-> WiringI[k] + 32], [k \in 1..26 |-> 64 + k]}
        \cup {Append(WiringOf(reflector_b.val), 65),
              [WiringOf(reflector_b.val) EXCEPT ![2] = 89],
              Append(SubSeq(WiringI, 1, 24), 233),
              <<>>}
        \cup {[WiringOf(reflector_c.val) EXCEPT ![k] = c] : k \in {1, 26}, c \in {65, 49}}

ReflectorNewInit ==
    /\ reflector = None
    /\ machine = None
    /\ keys = 0
    /\ run = None
    /\ rotor = None
    /\ plugboard = None
    /\ last = NoCall

\* let reflector = Reflector::new(wiring, "X"): the program holds the
\* reflector when the call returns Ok.
ReflectorNew(wiring) ==
    /\ LET r == Reflector_new(wiring, "X") IN
       /\ last' = [op |-> "Reflector::new", input |-> wiring, ret |-> r]
       /\ reflector' = IF r.ok THEN r.val ELSE reflector
    /\ UNCHANGED <<machine, keys, run, rotor, plugboard>>

ReflectorNewNext == \E wiring \in ReflectorWiringChoices : ReflectorNew(wiring)

SpecReflectorNew == ReflectorNewInit /\ [][ReflectorNewNext]_vars

(* SpecED: two machines in the same state and one text; encrypt is called  *)
(* on the first machine and decrypt on the second, in either order.          *)

EDInit ==
    /\ machine \in StandardMachines \cup CustomMachines
    /\ \E text \in Texts :
          run = [start |-> machine, other |-> machine, text |-> text,
                 encrypt_done |-> FALSE, encrypted |-> <<>>,
                 decrypt_done |-> FALSE, decrypted |-> <<>>]
    /\ keys = 0
    /\ reflector = None
    /\ rotor = None
    /\ plugboard = None
    /\ last = NoCall

EDEncrypt ==
    /\ ~run.encrypt_done
    /\ LET e == encrypt(machine, run.text) IN
       /\ machine' = e.machine
       /\ run' = [run EXCEPT !.encrypt_done = TRUE, !.encrypted = e.ret]
    /\ UNCHANGED <<reflector, keys, rotor, plugboard, last>>

EDDecrypt ==
    /\ ~run.decrypt_done
    /\ LET d == decrypt(run.other, run.text) IN
       run' = [run EXCEPT !.other = d.machine, !.decrypt_done = TRUE,
                          !.decrypted = d.ret]
    /\ UNCHANGED <<reflector, machine, keys, rotor, plugboard, last>>

EDNext == EDEncrypt \/ EDDecrypt

SpecED == EDInit /\ [][EDNext]_vars

(* SpecFactory: one call of a factory, with selectors, position letters,   *)
(* ring letters and plugboard strings that are and are not valid, in a      *)
(* build with and without overflow checks.                                   *)

\* "I II III", "II IV V", and selector arrays holding the unknown "VI".
FactoryTypeChoices ==
    RotorTypeChoices \cup {Arr3("I", "VI", "I"), Arr3("VI", "I", "II"), Arr3("I", "II", "VI")}

\* "A", "B", "C" and the unknown "D".
FactoryReflectorChoices == ReflectorTypeChoices \cup {"D"}

\* The letters A and B in every arrangement, "BCD", "ZYX", and arrays
\* holding '1', 'a' or '['.
FactoryPositionChoices ==
    StartPositionChoices
    \cup {Arr3(66, 67, 68), Arr3(90, 89, 88),
          Arr3(49, 65, 65), Arr3(65, 65, 49), Arr3(97, 65, 65), Arr3(65, 91, 65)}

\* "AAA", "BCD", "EFG", and arrays holding '1', 'a' or '['.
FactoryRingChoices ==
    RingSettingChoices
    \cup {Arr3(69, 70, 71),
          Arr3(49, 65, 65), Arr3(65, 65, 49), Arr3(65, 97, 65), Arr3(91, 65, 65)}

\* "", "AB CD EF", "AB CD", and "A", which from_string rejects.
FactoryPlugChoices == PlugboardStringChoices \cup {<<65, 66, 32, 67, 68>>, <<65>>}

FactoryInit ==
    /\ machine = None
    /\ keys = 0
    /\ reflector = None
    /\ run = None
    /\ rotor = None
    /\ plugboard = None
    /\ last = NoCall

CreateStandardMachine(p, r, s, oc) ==
    /\ last.op = "none"
    /\ LET ret == create_standard_machine(p, r, s, oc) IN
       /\ machine' = ret.val
       /\ last' = [op |-> "create_standard_machine", rotor_positions |-> p,
                   ring_settings |-> r, plugboard_connections |-> s,
                   overflow_checks |-> oc, ret |-> ret]
    /\ UNCHANGED <<reflector, keys, run, rotor, plugboard>>

CreateCustomMachine(t, p, r, f, s, oc) ==
    /\ last.op = "none"
    /\ LET ret == create_custom_machine(t, p, r, f, s, oc) IN
       /\ machine' = ret.val
       /\ last' = [op |-> "create_custom_machine", rotor_types |-> t,
                   rotor_positions |-> p, ring_settings |-> r,
                   reflector_type |-> f, plugboard_connections |-> s,
                   overflow_checks |-> oc, ret |-> ret]
    /\ UNCHANGED <<reflector, keys, run, rotor, plugboard>>

FactoryNext ==
    \/ \E p \in FactoryPositionChoices, r \in FactoryRingChoices,
          s \in FactoryPlugChoices, oc \in BOOLEAN :
          CreateStandardMachine(p, r, s, oc)
    \/ \E t \in FactoryTypeChoices, p \in FactoryPositionChoices,
          r \in FactoryRingChoices, f \in FactoryReflectorChoices,
          s \in FactoryPlugChoices, oc \in BOOLEAN :
          CreateCustomMachine(t, p, r, f, s, oc)

SpecFactory == FactoryInit /\ [][FactoryNext]_vars

(* ------------------------- claims checked on Spec ---------------------- *)

\* after is before advanced by one position, modulo 26.
Advanced(before, after) == after = (before + 1) % 26

\* The last call was a keystroke.
Keystroke == last.op = "encrypt_char"

\* The machine is the reference machine: rotors I, II, III, ring settings
\* AAA, reflector B, no plugboard pair.
ReferenceMachine ==
    /\ \A i \in 0..2 : machine.rotors[i].name = Arr3("I", "II", "III")[i]
    /\ \A i \in 0..2 : machine.rotors[i].ring_setting = 0
    /\ machine.reflector.name = "B"
    /\ \A i \in 0..25 : machine.plugboard.connections[i] = None

\* C2: on the reference machine (rotors I, II, III, rings AAA, reflector B,
\* empty plugboard) at positions AAA, encrypt_char('A') returns 'Q' and
\* leaves the rotors at AAB: they were stepped before the letter passed.
C2_ReferenceVector ==
    (Keystroke /\ ReferenceMachine /\ last.before = Arr3(0, 0, 0) /\ last.input = 65)
        => (last.ret = 81 /\ Positions(machine) = Arr3(0, 0, 1))

C2_Witness ==
    Keystroke /\ ReferenceMachine /\ last.before = Arr3(0, 0, 0) /\ last.input = 65

\* C3: a keystroke made with the middle rotor on its notch advances the
\* right, the middle and the left rotor by exactly one position each,
\* whether or not the right rotor was on its own notch.
C3_DoubleStep ==
    (Keystroke /\ last.before[1] = machine.rotors[1].notch)
        => \A i \in 0..2 : Advanced(last.before[i], machine.rotors[i].position)

\* The double step proper: the middle rotor on its notch, the right one not.
C3_Witness ==
    /\ Keystroke
    /\ last.before[1] = machine.rotors[1].notch
    /\ last.before[2] # machine.rotors[2].notch
    /\ \A i \in 0..2 : Advanced(last.before[i], machine.rotors[i].position)

\* C4: a keystroke made with neither the right nor the middle rotor on its
\* notch advances the right rotor by exactly one position (modulo 26) and
\* leaves the middle and the left rotor where they were.
C4_NormalStep ==
    (/\ Keystroke
     /\ last.before[2] # machine.rotors[2].notch
     /\ last.before[1] # machine.rotors[1].notch)
        => /\ Advanced(last.before[2], machine.rotors[2].position)
           /\ machine.rotors[1].position = last.before[1]
           /\ machine.rotors[0].position = last.before[0]

\* The right rotor wraps from Z to A without a carry.
C4_Witness ==
    /\ Keystroke
    /\ last.before[2] = 25
    /\ machine.rotors[2].notch # 25
    /\ last.before[1] # machine.rotors[1].notch
    /\ machine.rotors[2].position = 0

\* C5: a keystroke made with the right rotor on its notch and the middle
\* rotor off its notch advances the right and the middle rotor by one
\* position each and leaves the left rotor where it was; and on any
\* keystroke the left rotor moves only if the middle rotor advanced on that
\* keystroke from its notch position.
C5_CarryFromRight ==
    /\ (/\ Keystroke
        /\ last.before[2] = machine.rotors[2].notch
        /\ last.before[1] # machine.rotors[1].notch)
           => /\ Advanced(last.before[2], machine.rotors[2].position)
              /\ Advanced(last.before[1], machine.rotors[1].position)
              /\ machine.rotors[0].position = last.before[0]
    /\ (Keystroke /\ machine.rotors[0].position # last.before[0])
           => /\ last.before[1] = machine.rotors[1].notch
              /\ Advanced(last.before[1], machine.rotors[1].position)

C5_Witness ==
    /\ Keystroke
    /\ last.before[2] = machine.rotors[2].notch
    /\ last.before[1] # machine.rotors[1].notch
    /\ Advanced(last.before[1], machine.rotors[1].position)
    /\ machine.rotors[0].position = last.before[0]

(* ------------------------ claims checked on SpecRT --------------------- *)

\* s without its space characters.
RECURSIVE remove_spaces(_)
remove_spaces(s) ==
    IF s = <<>> THEN <<>>
    ELSE IF Head(s) = 32 THEN remove_spaces(Tail(s))
         ELSE <<Head(s)>> \o remove_spaces(Tail(s))

\* C1: for a machine built by either factory, encrypt(text), then
\* set_rotor_positions(start positions), then decrypt(ciphertext) returns,
\* spaces removed, clean_text(text).
C1_RoundTrip ==
    run.pc = "done" => remove_spaces(run.decrypted) = clean_text(run.text)

\* The same for the machines of create_standard_machine alone.
C1_RoundTripStandard ==
    (run.pc = "done" /\ run.factory = "create_standard_machine")
        => remove_spaces(run.decrypted) = clean_text(run.text)

(* ----------------------- claims checked on SpecRotor ------------------- *)

\* C6: for each predefined rotor I-V, every position, every ring setting
\* and every letter c of A..Z, backward(forward(c)) = c and
\* forward(backward(c)) = c.
C6_ForwardBackwardInverse ==
    /\ last.op = "forward" => backward(rotor, last.ret) = last.input
    /\ last.op = "backward" => forward(rotor, last.ret) = last.input

\* Rotor V at position Z with ring setting H has sent a letter forward.
C6_Witness ==
    /\ last.op = "forward"
    /\ rotor.name = "V"
    /\ rotor.position = 25
    /\ rotor.ring_setting = 7
    /\ backward(rotor, last.ret) = last.input

(* --------------------- claims checked on SpecRotorNew ------------------ *)

\* wiring is 26 letters in which every letter of the alphabet appears once.
WiringIsBijection(wiring) ==
    /\ Len(wiring) = 26
    /\ \A k \in 1..26 : is_ascii_alphabetic(wiring[k])
    /\ \A j, k \in 1..26 : j # k => letter_to_index(wiring[j]) # letter_to_index(wiring[k])

\* C7: Rotor::new returns an error for every wiring that is not a
\* bijection on A..Z, a 26-letter wiring with a letter appearing twice
\* included.
C7_RotorNewRejectsNonBijection ==
    (last.op = "Rotor::new" /\ ~WiringIsBijection(last.input)) => ~last.ret.ok

(* ----------------------- claims checked on SpecPlug -------------------- *)

\* C8: in every plugboard state reached through new, from_string,
\* add_connection, remove_connection and clear, process(process(x)) = x
\* for every letter x, upper or lower case.
C8_ProcessInvolution ==
    (last.op = "process" /\ is_ascii_alphabetic(last.input))
        => process(plugboard, last.ret) = last.input

\* The same for the upper-case letters alone.
C8_ProcessInvolutionUpper ==
    (last.op = "process" /\ last.input \in UpperLetters)
        => process(plugboard, last.ret) = last.input

\* C9: after any sequence of from_string, add_connection,
\* remove_connection and clear calls, successful or failing, a maps to b
\* if and only if b maps to a, for all letters a and b.
C9_PlugboardSymmetric ==
    \A a, b \in 0..25 :
        plugboard.connections[a] = b <=> plugboard.connections[b] = a

\* A failing add_connection on a plugboard that holds a pair of two letters.
C9_Witness ==
    /\ last.op = "add_connection"
    /\ ~last.ret.ok
    /\ \E a, b \in 0..25 : a # b /\ plugboard.connections[a] = b
                                 /\ plugboard.connections[b] = a

\* C10: after any sequence of from_string and add_connection calls with
\* alphabetic arguments of either case, no letter index is stored as its
\* own partner.
C10_NoSelfPairing ==
    \A a \in 0..25 : plugboard.connections[a] # a

\* token is not two letters: it is not two chars long or holds a non-letter.
BadToken(token) ==
    Len(token) # 2 \/ \E k \in 1..Len(token) : ~is_ascii_alphabetic(token[k])

\* One of the whitespace-separated tokens of s is not two letters.
HasBadToken(s) ==
    \E k \in 1..Len(split_whitespace(s)) : BadToken(split_whitespace(s)[k])

\* C11: from_string returns an error value, neither succeeding nor
\* aborting, for every input with a token that is not exactly two chars
\* long or that holds a non-letter, a token of one multi-byte char included.
C11_FromStringErrOnBadToken ==
    (last.op = "from_string" /\ HasBadToken(last.input))
        => (~last.ret.ok /\ ~last.ret.panic)

\* The same for the inputs whose chars are all one byte long.
C11_FromStringErrOnBadTokenAscii ==
    (/\ last.op = "from_string"
     /\ HasBadToken(last.input)
     /\ \A k \in 1..Len(last.input) : len_utf8(last.input[k]) = 1)
        => (~last.ret.ok /\ ~last.ret.panic)

\* The call add_connection(a, b) recorded in last left the plugboard as it
\* was if it failed, and if it succeeded made a and b each other's partner,
\* left every other letter's partner as it was and added one to the count.
AddConnectionEffect ==
    LET a == letter_to_index(last.input[1])
        b == letter_to_index(last.input[2])
    IN /\ ~last.ret.panic
       /\ ~last.ret.ok => plugboard = last.before
       /\ last.ret.ok =>
            /\ plugboard.connections[a] = b
            /\ plugboard.connections[b] = a
            /\ \A i \in 0..25 \ {a, b} :
                 plugboard.connections[i] = last.before.connections[i]
            /\ plugboard.connection_count = last.before.connection_count + 1

\* C20: add_connection(a, b) fails exactly when a or b is not a letter, a
\* and b are the same letter, or a or b is already paired; on failure
\* connections and connection_count are unchanged; on success a and b are
\* each other's partner, every other partner is unchanged and
\* connection_count has grown by one.
C20_AddConnection ==
    last.op = "add_connection" =>
        LET a == letter_to_index(last.input[1])
            b == letter_to_index(last.input[2])
        IN /\ ~last.ret.ok <=> \/ a = None
                               \/ b = None
                               \/ a = b
                               \/ last.before.connections[a] # None
                               \/ last.before.connections[b] # None
           /\ AddConnectionEffect

\* The same with "the same char" in the place of "the same letter".
C20_AddConnectionSameChar ==
    last.op = "add_connection" =>
        LET a == letter_to_index(last.input[1])
            b == letter_to_index(last.input[2])
        IN /\ ~last.ret.ok <=> \/ a = None
                               \/ b = None
                               \/ last.input[1] = last.input[2]
                               \/ last.before.connections[a] # None
                               \/ last.before.connections[b] # None
           /\ AddConnectionEffect

\* C21: remove_connection(a) fails, leaving the plugboard unchanged, when a
\* has no partner (or is no letter); otherwise neither a nor its former
\* partner is connected afterwards, every other letter's partner is
\* unchanged and connection_count, which was at least one, is one less: the
\* subtraction never underflows, in a build with or without overflow checks.
C21_RemoveConnection ==
    last.op = "remove_connection" =>
        LET a == letter_to_index(last.input) IN
        /\ ~last.ret.panic
        /\ IF a = None \/ last.before.connections[unwrap_or(a, 0)] = None
           THEN ~last.ret.ok /\ plugboard = last.before
           ELSE LET b == last.before.connections[a] IN
                /\ last.ret.ok
                /\ plugboard.connections[a] = None
                /\ plugboard.connections[b] = None
                /\ \A i \in 0..25 \ {a, b} :
                     plugboard.connections[i] = last.before.connections[i]
                /\ last.before.connection_count >= 1
                /\ plugboard.connection_count = last.before.connection_count - 1

\* 'A' has been removed from a plugboard with the pairs AB and CD.
C21_Witness ==
    /\ last.op = "remove_connection"
    /\ last.ret.ok
    /\ last.input = 65
    /\ last.before.connections[0] = 1
    /\ last.before.connection_count = 2
    /\ plugboard.connections[2] = 3

\* remove_connection has failed on a letter without a partner.
C21_WitnessNoPartner ==
    /\ last.op = "remove_connection"
    /\ ~last.ret.ok
    /\ last.input = 66
    /\ last.before.connection_count = 1

\* No letter of the plugboard is its own partner: the case of every
\* plugboard built from upper-case letters, since add_connection rejects two
\* equal chars.
NoSelfPair(p) == \A i \in 0..25 : p.connections[i] # i

\* The active pairs of the plugboard, as sets of two indices.
ActivePairs(p) == {{i, p.connections[i]} : i \in {j \in 0..25 : p.connections[j] # None}}

\* C22: for a plugboard built from upper-case letters through from_string,
\* add_connection and remove_connection, the tokens of
\* get_connections_string() are two upper-case letters each, every active
\* pair is one token and no other, the number of tokens is
\* get_connection_count(), and from_string of the string succeeds with the
\* same connections and connection_count.
C22_ConnectionsStringRoundTrip ==
    (last.op = "get_connections_string" /\ NoSelfPair(plugboard)) =>
        LET tokens == split_whitespace(last.ret)
            parsed == from_string(last.ret)
        IN /\ Len(tokens) = get_connection_count(plugboard)
           /\ \A k \in 1..Len(tokens) :
                /\ Len(tokens[k]) = 2
                /\ tokens[k][1] \in UpperLetters
                /\ tokens[k][2] \in UpperLetters
                /\ {tokens[k][1] - 65, tokens[k][2] - 65} \in ActivePairs(plugboard)
           /\ \A pair \in ActivePairs(plugboard) :
                Cardinality({k \in 1..Len(tokens) :
                                {tokens[k][1] - 65, tokens[k][2] - 65} = pair}) = 1
           /\ parsed.ok
           /\ parsed.val = plugboard

\* The string of a plugboard with two pairs has been read.
C22_Witness ==
    /\ last.op = "get_connections_string"
    /\ NoSelfPair(plugboard)
    /\ get_connection_count(plugboard) = 2
    /\ Len(last.ret) = 5

(* ------------------------ claims checked on SpecSet -------------------- *)

\* The index of a letter of either case, and -1 for any other char.
LetterIndexOrNone(c) ==
    IF c \in 65..90 THEN c - 65 ELSE IF c \in 97..122 THEN c - 97 ELSE -1

\* C23: the setters ignore invalid arguments.  Rotor::set_position and
\* Rotor::set_ring_setting with an argument of 26 or more leave the rotor
\* unchanged (and with a smaller one replace that field only);
\* set_rotor_positions leaves the position of rotor i unchanged when
\* component i is no letter, sets it to the letter's index otherwise, and
\* changes no ring setting; set_ring_settings does the same to the ring
\* settings and changes no position.
C23_SettersIgnoreInvalid ==
    /\ last.op = "Rotor::set_position" =>
          rotor = (IF last.input >= 26 THEN last.before
                   ELSE [last.before EXCEPT !.position = last.input])
    /\ last.op = "Rotor::set_ring_setting" =>
          rotor = (IF last.input >= 26 THEN last.before
                   ELSE [last.before EXCEPT !.ring_setting = last.input])
    /\ last.op = "set_rotor_positions" =>
          \A i \in 0..2 :
             /\ machine.rotors[i].position =
                   (IF LetterIndexOrNone(last.input[i]) = -1
                    THEN last.before.rotors[i].position
                    ELSE LetterIndexOrNone(last.input[i]))
             /\ machine.rotors[i].ring_setting = last.before.rotors[i].ring_setting
    /\ last.op = "set_ring_settings" =>
          \A i \in 0..2 :
             /\ machine.rotors[i].ring_setting =
                   (IF LetterIndexOrNone(last.input[i]) = -1
                    THEN last.before.rotors[i].ring_setting
                    ELSE LetterIndexOrNone(last.input[i]))
             /\ machine.rotors[i].position = last.before.rotors[i].position

\* set_rotor_positions(['C', '1', 'C']) has moved the outer rotors and left
\* the middle one, which was not on 'C', where it was.
C23_Witness ==
    /\ last.op = "set_rotor_positions"
    /\ last.input = Arr3(67, 49, 67)
    /\ Positions(last.before) = Arr3(0, 1, 0)
    /\ Positions(machine) = Arr3(2, 1, 2)

\* Rotor::set_position(26) has been called.
C23_WitnessRotor ==
    /\ last.op = "Rotor::set_position"
    /\ last.input = 26
    /\ rotor.position = 2

(* ----------------------- claims checked on SpecTwice -------------------- *)

\* C24: on the standard machine at positions "AAA", rings "AAA", with no
\* plugboard pair, two consecutive calls of encrypt_char with the same
\* letter return different letters, for every letter 'A'..'Z'.
C24_SameInputDifferentOutput ==
    (Len(run) = 2 /\ run[1].input = run[2].input) => run[1].ret # run[2].ret

\* 'A' has been typed twice, as in test_rotor_stepping: 'Q', then 'X'.
C24_Witness ==
    /\ Len(run) = 2
    /\ run[1].input = 65
    /\ run[2].input = 65
    /\ run[1].ret = 81
    /\ run[2].ret = 88

(* ------------------------ claims checked on SpecCall ------------------- *)

\* C27: encrypt_char, encrypt and decrypt change only the positions of the
\* three rotors: ring settings, wirings, notches and names of the rotors,
\* the reflector and the plugboard's connections and connection_count are
\* after the call what they were before it.
C27_OnlyPositionsChange ==
    last.op \in {"encrypt_char", "encrypt", "decrypt"} =>
        /\ machine.reflector = run.reflector
        /\ machine.plugboard = run.plugboard
        /\ \A i \in 0..2 :
             [machine.rotors[i] EXCEPT !.position = run.rotors[i].position]
                = run.rotors[i]

\* encrypt("HELLO") has moved the rotors of a machine with ring settings
\* "BCD" and three plugboard pairs.
C27_Witness ==
    /\ last.op = "encrypt"
    /\ last.input = <<72, 69, 76, 76, 79>>
    /\ Positions(machine) # Positions(run)
    /\ get_ring_settings(run) = Arr3(66, 67, 68)
    /\ get_connection_count(run.plugboard) = 3

\* C28: no letter is enciphered to itself: for a machine built by a factory
\* from predefined rotors, reflector A, B or C and a plugboard of distinct
\* upper-case pairs, at any of its positions and ring settings, and for
\* every letter c in 'A'..'Z', encrypt_char(c) is not c.
C28_NoLetterToItself ==
    (/\ last.op = "encrypt_char"
     /\ last.input \in UpperLetters
     /\ NoSelfPair(run.plugboard)
     /\ run.reflector.name \in {"A", "B", "C"})
        => last.ret # last.input

\* 'A' has been typed on a machine with reflector C, rings "DCB" and the
\* pairs AB, CD, EF.
C28_Witness ==
    /\ last.op = "encrypt_char"
    /\ last.input = 65
    /\ last.ret # 65
    /\ run.reflector.name = "C"
    /\ get_ring_settings(run) = Arr3(68, 67, 66)
    /\ get_connection_count(run.plugboard) = 3
    /\ NoSelfPair(run.plugboard)

\* The chars along the signal path of encrypt_char(input) on machine m:
\* after the plugboard, after each rotor forward, after the reflector, after
\* each rotor backward, after the plugboard again.
SignalPath(m, input) ==
    LET rotors == step_rotors(m.rotors)
        p == process(m.plugboard, input)
        f0 == forward(rotors[0], p)
        f1 == forward(rotors[1], f0)
        f2 == forward(rotors[2], f1)
        r == reflect(m.reflector, f2)
        b2 == backward(rotors[2], r)
        b1 == backward(rotors[1], b2)
        b0 == backward(rotors[0], b1)
    IN <<p, f0, f1, f2, r, b2, b1, b0, process(m.plugboard, b0)>>

\* C29: encrypt_char is total: for any input char, lower-case letters and
\* non-letters included, it returns a letter in 'A'..'Z' and steps the
\* rotors exactly once; every char along the signal path after the first
\* rotor is a letter in 'A'..'Z', so every table index is in 0..25; a
\* non-letter gives what 'A' gives (index 0) and a lower-case letter what
\* its upper-case letter gives.
C29_EncryptCharTotal ==
    last.op = "encrypt_char" =>
        /\ last.ret \in UpperLetters
        /\ machine.rotors = step_rotors(run.rotors)
        /\ machine.rotors[2].position = (run.rotors[2].position + 1) % 26
        /\ \A k \in 2..9 : SignalPath(run, last.input)[k] \in UpperLetters
        /\ SignalPath(run, last.input)[9] = last.ret
        /\ unwrap_or(letter_to_index(SignalPath(run, last.input)[1]), 0) \in 0..25
        /\ ~is_ascii_alphabetic(last.input) => last.ret = encrypt_char(run, 65).ret
        /\ last.input \in 97..122 => last.ret = encrypt_char(run, last.input - 32).ret

\* '1' has been typed on a machine whose plugboard pairs 'A' with 'B'.
C29_Witness ==
    /\ last.op = "encrypt_char"
    /\ last.input = 49
    /\ run.plugboard.connections[0] = 1
    /\ last.ret \in UpperLetters

(* ------------------------ claims checked on SpecStep -------------------- *)

\* The positions <<left, middle, right>> are among those the stepping comes
\* back to, for middle and right rotors with the notches given: the middle
\* rotor is on its notch only with the right rotor one past its own, and
\* one past its notch only with the right rotor elsewhere.
OnCycle(middle, right, middle_notch, right_notch) ==
    /\ middle = middle_notch => right = (right_notch + 1) % 26
    /\ middle = (middle_notch + 1) % 26 => right # (right_notch + 1) % 26

\* OnCycle for the positions of machine m.
MachineOnCycle(m) ==
    OnCycle(m.rotors[1].position, m.rotors[2].position,
            m.rotors[1].notch, m.rotors[2].notch)

\* C30: from any start positions the position triples of successive
\* keystrokes are eventually periodic with period exactly 16900 =
\* 26 x 25 x 26: after the first keystrokes the triple is one of the 16900
\* triples of the cycle; a triple of the cycle does not come back in the
\* next 16899 keystrokes and comes back at the 16900th; and a triple with
\* the middle rotor on its notch is never followed by one with the middle
\* rotor still on its notch.
C30_SteppingPeriod ==
    /\ run.lead = LeadIn => MachineOnCycle(machine)
    /\ (run.lead = LeadIn /\ keys \in 1..16899) => Positions(machine) # run.mark
    /\ (run.lead = LeadIn /\ keys = 16900) =>
          /\ Positions(machine) = run.mark
          /\ Cardinality({t \in (0..25) \X (0..25) \X (0..25) :
                             OnCycle(t[2], t[3], machine.rotors[1].notch,
                                     machine.rotors[2].notch)}) = 16900
    /\ (last.op = "encrypt_char" /\ last.middle_on_notch) => ~MiddleOnNotch(machine)

\* 16900 keystrokes after the mark, on the machine started at "AEV" (marked
\* at "BFX").
C30_Witness ==
    /\ run.lead = LeadIn
    /\ keys = 16900
    /\ run.start = Arr3(65, 69, 86)
    /\ run.mark = Arr3(1, 5, 23)
    /\ Positions(machine) = run.mark

\* A keystroke has been made with the middle rotor on its notch.
C30_WitnessNotch ==
    /\ last.op = "encrypt_char"
    /\ last.middle_on_notch
    /\ keys > 0

(* ----------------------- claims checked on SpecClean -------------------- *)

\* The positions of s that hold an ASCII letter.
LetterPositions(s) == {k \in 1..Len(s) : s[k] \in 65..90 \/ s[k] \in 97..122}

\* t is the subsequence of the ASCII letters of s, in order, each in upper
\* case: the n-th letter of s, upper-cased, is the n-th char of t.
IsUpperLetterSubsequence(t, s) ==
    /\ Len(t) = Cardinality(LetterPositions(s))
    /\ \A k \in LetterPositions(s) :
         t[Cardinality({j \in LetterPositions(s) : j <= k})]
            = (IF s[k] >= 97 THEN s[k] - 32 ELSE s[k])

\* C19: clean_text(s) is exactly the subsequence of the ASCII letters of s,
\* upper-cased and in order, every other char dropped; cleaning the result
\* again returns it unchanged; clean_text("He11o, World!") is "HEOWORLD".
C19_CleanText ==
    /\ last.op = "clean_text" => IsUpperLetterSubsequence(last.ret, last.input)
    /\ last.op = "clean_again" => last.ret = last.input
    /\ (/\ last.op = "clean_text"
        /\ last.input = <<72, 101, 49, 49, 111, 44, 32, 87, 111, 114, 108, 100, 33>>)
           => last.ret = <<72, 69, 79, 87, 79, 82, 76, 68>>

\* "He11o, World!" has been cleaned twice.
C19_Witness ==
    /\ last.op = "clean_again"
    /\ run = <<72, 101, 49, 49, 111, 44, 32, 87, 111, 114, 108, 100, 33>>
    /\ last.ret = <<72, 69, 79, 87, 79, 82, 76, 68>>

\* A text of letters and other chars mixed has been cleaned.
C19_WitnessMixed ==
    /\ last.op = "clean_text"
    /\ last.input = <<49, 98, 233>>
    /\ last.ret = <<66>>

(* --------------------- claims checked on SpecReflector ----------------- *)

\* C17: each predefined reflector A, B, C is an involution,
\* reflect(reflect(x)) = x for every letter x in 'A'..'Z'; reflector B maps
\* 'A' to 'Y' and 'Y' to 'A'.
C17_ReflectorInvolution ==
    /\ (last.op = "reflect_again" /\ last.first \in UpperLetters)
           => last.ret = last.first
    /\ (last.op = "reflect" /\ reflector.name = "B" /\ last.input = 65)
           => last.ret = 89
    /\ (last.op = "reflect" /\ reflector.name = "B" /\ last.input = 89)
           => last.ret = 65

\* Reflector B has sent 'A' through twice: 'A', then the 'Y' it returned.
C17_Witness ==
    /\ last.op = "reflect_again"
    /\ reflector = reflector_b.val
    /\ last.first = 65
    /\ last.input = 89

(* ------------------- claims checked on SpecReflectorNew ---------------- *)

\* C18: Reflector::new returns an error for every wiring that is not 26
\* letters forming a bijection on A..Z (wrong length, a non-letter, a letter
\* twice), and succeeds for every 26-letter bijection, an involution or
\* not; the reflector built sends the k-th letter to the k-th wiring letter.
C18_ReflectorNewChecksBijection ==
    last.op = "Reflector::new"
        => /\ ~last.ret.panic
           /\ last.ret.ok <=> WiringIsBijection(last.input)
           /\ last.ret.ok =>
                /\ reflector = last.ret.val
                /\ \A k \in 1..26 :
                     reflect(reflector, 64 + k) = to_ascii_uppercase(last.input[k])

\* Reflector::new has succeeded on a wiring that is no involution.
C18_Witness ==
    /\ last.op = "Reflector::new"
    /\ last.ret.ok
    /\ \E x \in UpperLetters : reflect(reflector, reflect(reflector, x)) # x

\* Reflector::new has rejected a 26-letter wiring with a letter twice.
C18_WitnessRejected ==
    /\ last.op = "Reflector::new"
    /\ ~last.ret.ok
    /\ Len(last.input) = 26
    /\ \A k \in 1..26 : is_ascii_alphabetic(last.input[k])

(* ------------------------ claims checked on SpecED --------------------- *)

\* C16: encrypt and decrypt are the same operation: for two machines in the
\* same state and any text, encrypt(text) on one and decrypt(text) on the
\* other return the same string and leave the machines in the same state.
C16_EncryptIsDecrypt ==
    (run.encrypt_done /\ run.decrypt_done)
        => (run.encrypted = run.decrypted /\ machine = run.other)

\* Both calls were made on "HELLO WORLD", whose output has two blocks, and
\* the machines moved.
C16_Witness ==
    /\ run.encrypt_done
    /\ run.decrypt_done
    /\ run.text = <<72, 69, 76, 76, 79, 32, 87, 79, 82, 76, 68>>
    /\ Len(run.encrypted) = 12
    /\ Positions(machine) # Positions(run.start)

\* The chars of s other than the space, in order.
WithoutSpaces(s) == SelectSeq(s, LAMBDA c : c # 32)

\* The letters of s, in order, each in upper case.
LettersOf(s) ==
    [n \in 1..Cardinality(LetterPositions(s)) |->
        LET k == CHOOSE k \in LetterPositions(s) :
                    Cardinality({j \in LetterPositions(s) : j <= k}) = n
        IN IF s[k] >= 97 THEN s[k] - 32 ELSE s[k]]

\* The machine after the chars of letters have been given to encrypt_char
\* one after the other.
RECURSIVE AfterKeystrokes(_, _)
AfterKeystrokes(m, letters) ==
    IF letters = <<>> THEN m
    ELSE AfterKeystrokes(encrypt_char(m, Head(letters)).machine, Tail(letters))

\* C25: encrypt(text) applies encrypt_char once to each ASCII letter of
\* text, in order: the n-th letter of the output is what encrypt_char
\* returns for the n-th letter of text after the n - 1 letters before it,
\* the output has as many letters as text has, the right rotor ends that
\* many steps after its start position, and the machine ends as after those
\* keystrokes: the other chars of text neither step a rotor nor give output.
C25_EncryptPerLetter ==
    run.encrypt_done =>
        LET letters == LettersOf(run.text)
            out == WithoutSpaces(run.encrypted)
        IN /\ Len(out) = Len(letters)
           /\ \A n \in 1..Len(letters) :
                out[n] = encrypt_char(AfterKeystrokes(run.start, SubSeq(letters, 1, n - 1)),
                                      letters[n]).ret
           /\ machine.rotors[2].position
                = (run.start.rotors[2].position + Len(letters)) % 26
           /\ machine = AfterKeystrokes(run.start, letters)

\* encrypt("1b") has returned one letter and stepped the right rotor once.
C25_Witness ==
    /\ run.encrypt_done
    /\ run.text = <<49, 98>>
    /\ Len(run.encrypted) = 1
    /\ machine.rotors[2].position = (run.start.rotors[2].position + 1) % 26

\* out is blocks of five letters, the last one of one to five letters,
\* with one space between two blocks and none at either end: the chars at
\* the positions 6, 12, ... are spaces, all others are letters, and the
\* last char is no space.
IsBlocksOfFive(out) ==
    /\ \A k \in 1..Len(out) :
         IF k % 6 = 0 THEN out[k] = 32 ELSE out[k] \in UpperLetters
    /\ out # <<>> => out[Len(out)] # 32

\* C26: the string encrypt returns, and the one decrypt returns, is blocks
\* of five letters separated by one space, with no space at the start or
\* at the end, for every number of letters, the multiples of five included.
C26_BlocksOfFive ==
    /\ run.encrypt_done => IsBlocksOfFive(run.encrypted)
    /\ run.decrypt_done => IsBlocksOfFive(run.decrypted)

\* What the code does: a space follows every fifth letter, the last letter
\* included, so the output ends with a space exactly when the number of
\* letters is a multiple of five and not zero.
C26_SpaceAfterEveryFifth ==
    run.encrypt_done =>
        LET n == Cardinality(LetterPositions(run.text)) IN
        /\ Len(run.encrypted) = n + (n \div 5)
        /\ \A k \in 1..Len(run.encrypted) :
             IF k % 6 = 0 THEN run.encrypted[k] = 32
             ELSE run.encrypted[k] \in UpperLetters
        /\ n % 5 # 0 => IsBlocksOfFive(run.encrypted)

(* ---------------------- claims checked on SpecFactory ------------------ *)

\* The chars of the array are all in 'A'..'Z'.
AllUpper(chars) == \A i \in 0..2 : chars[i] \in UpperLetters

\* The names of the rotors of the stack, left to right.
RotorNamesOf(m) == [i \in 0..2 |-> m.rotors[i].name]

\* C12: after create_custom_machine succeeds with upper-case position and
\* ring letters, rotor i of the stack is the one named rotor_types[i],
\* get_rotor_positions() is rotor_positions and get_ring_settings() is
\* ring_settings.
C12_CustomBuildsInOrder ==
    (/\ last.op = "create_custom_machine"
     /\ last.ret.ok
     /\ AllUpper(last.rotor_positions)
     /\ AllUpper(last.ring_settings))
        => /\ RotorNamesOf(machine) = last.rotor_types
           /\ get_rotor_positions(machine) = last.rotor_positions
           /\ get_ring_settings(machine) = last.ring_settings

\* What the code does instead: rotor i gets the position and the ring
\* letter of index 2 - i.
C12_CustomBuildsReversed ==
    (last.op = "create_custom_machine" /\ last.ret.ok)
        => /\ RotorNamesOf(machine) = last.rotor_types
           /\ \A i \in 0..2 :
                /\ get_rotor_positions(machine)[i] = last.rotor_positions[2 - i]
                /\ get_ring_settings(machine)[i] = last.ring_settings[2 - i]

\* The configuration text of a standard machine with the given ring
\* letters, position letters and pair string.
StandardInfo(ring_settings, rotor_positions, pairs) ==
    <<82, 111, 116, 111, 114, 101, 110, 58, 32, 73, 32, 73, 73, 32, 73, 73, 73>>
    \o <<10, 82, 105, 110, 103, 115, 116, 101, 108, 108, 117, 110, 103, 101, 110, 58, 32>>
    \o <<ring_settings[0], 32, ring_settings[1], 32, ring_settings[2]>>
    \o <<10, 80, 111, 115, 105, 116, 105, 111, 110, 101, 110, 58, 32>>
    \o <<rotor_positions[0], 32, rotor_positions[1], 32, rotor_positions[2]>>
    \o <<10, 82, 101, 102, 108, 101, 107, 116, 111, 114, 58, 32, 66>>
    \o <<10, 83, 116, 101, 99, 107, 101, 114, 98, 114, 101, 116, 116, 58, 32>>
    \o pairs

\* C13: after create_standard_machine succeeds the stack is rotors I, II,
\* III, left to right, with reflector B; get_rotor_positions() is the
\* positions argument, get_ring_settings() the rings argument, and
\* get_configuration_info() is the text with those names, ring letters,
\* position letters and the pair string of the plugboard (the plugboard
\* strings given here list each pair once, in the order of the pair string).
C13_StandardMachineBuilt ==
    (last.op = "create_standard_machine" /\ last.ret.ok)
        => /\ RotorNamesOf(machine) = Arr3("I", "II", "III")
           /\ machine.rotors[0].wiring = rotor_i(0, 0).val.wiring
           /\ machine.rotors[1].wiring = rotor_ii(0, 0).val.wiring
           /\ machine.rotors[2].wiring = rotor_iii(0, 0).val.wiring
           /\ machine.reflector = reflector_b.val
           /\ get_rotor_positions(machine) = last.rotor_positions
           /\ get_ring_settings(machine) = last.ring_settings
           /\ get_connections_string(machine.plugboard) = last.plugboard_connections
           /\ get_configuration_info(machine)
                = StandardInfo(last.ring_settings, last.rotor_positions,
                               last.plugboard_connections)

\* The machine of test_configuration_info: positions "BCD", rings "EFG",
\* plugboard "AB CD".
C13_Witness ==
    /\ last.op = "create_standard_machine"
    /\ last.ret.ok
    /\ last.rotor_positions = Arr3(66, 67, 68)
    /\ last.ring_settings = Arr3(69, 70, 71)
    /\ last.plugboard_connections = <<65, 66, 32, 67, 68>>

\* A rotor selector or the reflector selector of the call is unknown.
UnknownSelector ==
    \/ \E i \in 0..2 : last.rotor_types[i] \notin {"I", "II", "III", "IV", "V"}
    \/ last.reflector_type \notin {"A", "B", "C"}

\* The call returned an error value: it did not succeed, did not abort,
\* and there is no machine.
ReturnedErr == ~last.ret.ok /\ ~last.ret.panic /\ machine = None

\* C14: create_custom_machine returns an error, and no machine, whenever
\* one of the three rotor selectors is not "I".."V" or the reflector
\* selector is not "A", "B" or "C".
C14_UnknownSelectorIsErr ==
    (last.op = "create_custom_machine" /\ UnknownSelector) => ReturnedErr

\* The same when the position and ring letters are all upper case.
C14_UnknownSelectorIsErrUpper ==
    (/\ last.op = "create_custom_machine"
     /\ UnknownSelector
     /\ AllUpper(last.rotor_positions)
     /\ AllUpper(last.ring_settings)) => ReturnedErr

\* C15: both factories return an error value, without aborting and
\* without building a machine, whenever a position or ring-setting char
\* is outside 'A'..'Z'.
C15_BadLetterIsErr ==
    (/\ last.op \in {"create_standard_machine", "create_custom_machine"}
     /\ ~(AllUpper(last.rotor_positions) /\ AllUpper(last.ring_settings)))
        => ReturnedErr

\* The same in a build without overflow checks, where the subtraction wraps.
C15_BadLetterIsErrWrapping ==
    (/\ last.op \in {"create_standard_machine", "create_custom_machine"}
     /\ ~last.overflow_checks
     /\ ~(AllUpper(last.rotor_positions) /\ AllUpper(last.ring_settings)))
        => ReturnedErr

\* No call of a factory builds a machine from a char outside 'A'..'Z'.
C15_BadLetterBuildsNothing ==
    (/\ last.op \in {"create_standard_machine", "create_custom_machine"}
     /\ ~(AllUpper(last.rotor_positions) /\ AllUpper(last.ring_settings)))
        => (~last.ret.ok /\ machine = None)

=============================================================================
